---- MODULE Spec2Model ----
(***************************************************************************)
(* The ledger transaction engine of txprocessor (src/src/main.rs).         *)
(*                                                                         *)
(* The two SQL tables are functions from primary key to row; a handler is  *)
(* an operator from (connection, event) to the connection after the        *)
(* handler's SQL transaction ended, plus the handler's result.  Amounts    *)
(* are integers (a count of the smallest unit of money), so arithmetic is  *)
(* exact; the feed is any sequence of typed events.                        *)
(***************************************************************************)
EXTENDS Integers, FiniteSets, Sequences, TLC

\* Bounds of the model.
MaxTxId == 2
MaxClient == 2
MaxAmount == 1
MaxEvents == 3

VARIABLES conn, result, handled, file, queue, pc

vars == <<conn, result, handled, file, queue, pc>>

TxId == 1..MaxTxId
ClientId == 1..MaxClient
Amount == 0..MaxAmount

\* enum TxType, by its strum serialisation.
TxType == {"deposit", "withdrawal", "dispute", "resolve", "chargeback"}

\* enum TxStatus, by its strum serialisation.
TxStatus == {"processed", "in_dispute", "resolved", "chargeback"}

\* enum AccountStatus, by its strum serialisation.
AccountStatus == {"active", "blocked", "inactive"}

\* struct Tx: one typed event of the feed.  Dispute, resolve and chargeback
\* rows carry no amount; no handler of theirs reads the field.
Tx == [id : TxId, tx_type : {"deposit", "withdrawal"}, client_id : ClientId, amount : Amount]
        \cup [id : TxId, tx_type : {"dispute", "resolve", "chargeback"}, client_id : ClientId, amount : {0}]

\* impl FromSql for TxType: decoding of the tx_type column.
FromSqlTxType(value) ==
    IF value \in {"deposit", "withdrawal", "dispute", "resolve", "chargeback"}
    THEN "Ok" ELSE "InvalidType"

\* impl FromSql for TxStatus: decoding of the status column ("chargeback"
\* has no arm).
FromSqlTxStatus(value) ==
    IF value \in {"processed", "in_dispute", "resolved"}
    THEN "Ok" ELSE "InvalidType"

\* The tables migrate_tables creates, both empty.
migrate_tables == [account |-> <<>>, tx |-> <<>>]

\* SELECT count(id) FROM tx where id = ?1
num_of_records_zero(c, id) == 0

num_of_records(c, id) == Cardinality({i \in DOMAIN c.tx : i = id})

\* INSERT OR IGNORE INTO account (id, available_amount, held_amount, locked,
\* status) VALUES (?1, 0, 0, false, active)
InsertOrReplaceAccount(account, client_id) ==
    [k \in DOMAIN account \cup {client_id} |->
        IF k = client_id
        THEN [available_amount |-> 0, held_amount |-> 0,
              locked |-> FALSE, status |-> "active"]
        ELSE account[k]]

InsertOrIgnoreAccount(account, client_id) ==
    IF client_id \in DOMAIN account THEN account
    ELSE [k \in DOMAIN account \cup {client_id} |->
            IF k = client_id
            THEN [available_amount |-> 0, held_amount |-> 0,
                  locked |-> FALSE, status |-> "active"]
            ELSE account[k]]

\* INSERT OR IGNORE INTO tx (id, tx_type, client_id, amount) values (...);
\* the status column takes its default, 'processed'.
InsertOrIgnoreTx(tx, t) ==
    IF t.id \in DOMAIN tx THEN tx
    ELSE [k \in DOMAIN tx \cup {t.id} |->
            IF k = t.id
            THEN [tx_type |-> t.tx_type, client_id |-> t.client_id,
                  amount |-> t.amount, status |-> "processed"]
            ELSE tx[k]]

\* The rows of SELECT ... FROM tx WHERE status = ?3 AND client_id = ?1 AND id = ?2
SelectTxAnyStatus(tx, client_id, id, status) ==
    {i \in DOMAIN tx : i = id /\ tx[i].client_id = client_id}

SelectTxAnyClient(tx, client_id, id, status) ==
    {i \in DOMAIN tx : i = id /\ tx[i].status = status}

SelectTx(tx, client_id, id, status) ==
    {i \in DOMAIN tx : i = id /\ tx[i].client_id = client_id /\ tx[i].status = status}

\* The closure of query_row: decoding the selected row into an SqlTx.
DecodeSqlTx(row) ==
    IF FromSqlTxType(row.tx_type) = "Ok" /\ FromSqlTxStatus(row.status) = "Ok"
    THEN "Ok" ELSE "Err"

\* A variant of the UPDATE that rewrites the whole row: REPLACE INTO tx (id, status)
UpdateTxStatusReplacesRow(tx, id, status) ==
    [k \in DOMAIN tx |->
        IF k = id THEN [tx[k] EXCEPT !.status = status, !.amount = 0] ELSE tx[k]]

\* UPDATE tx SET status = ?2 WHERE id = ?1
UpdateTxStatus(tx, id, status) ==
    [k \in DOMAIN tx |-> IF k = id THEN [tx[k] EXCEPT !.status = status] ELSE tx[k]]

\* The connection after a handler returned: what its SQL transaction committed
\* (nothing, when it was rolled back or dropped) and the handler's result.
Done(c, r) == [account |-> c.account, tx |-> c.tx, result |-> r]

handle_deposit_any_status(c, t) ==
    IF num_of_records(c, t.id) = 1
    THEN Done(c, "Ok")
    ELSE LET a1 == InsertOrIgnoreAccount(c.account, t.client_id)
             a2 == [k \in DOMAIN a1 |->
                      IF k = t.client_id
                      THEN [a1[k] EXCEPT !.available_amount = @ + t.amount]
                      ELSE a1[k]]
         IN  [account |-> a2, tx |-> InsertOrIgnoreTx(c.tx, t), result |-> "Ok"]

handle_deposit(c, t) ==
    IF num_of_records(c, t.id) = 1
    THEN Done(c, "Ok")
    ELSE LET a1 == InsertOrIgnoreAccount(c.account, t.client_id)
             a2 == [k \in DOMAIN a1 |->
                      IF k = t.client_id /\ a1[k].status = "active"
                      THEN [a1[k] EXCEPT !.available_amount = @ + t.amount]
                      ELSE a1[k]]
         IN  [account |-> a2, tx |-> InsertOrIgnoreTx(c.tx, t), result |-> "Ok"]

handle_withdrawal_any_funds(c, t) ==
    IF num_of_records(c, t.id) = 1
    THEN Done(c, "Ok")
    ELSE LET a1 == [k \in DOMAIN c.account |->
                      IF k = t.client_id /\ c.account[k].status = "active"
                      THEN [c.account[k] EXCEPT !.available_amount = @ - t.amount]
                      ELSE c.account[k]]
         IN  [account |-> a1, tx |-> InsertOrIgnoreTx(c.tx, t), result |-> "Ok"]

handle_withdrawal_creates_account(c, t) ==
    IF num_of_records(c, t.id) = 1
    THEN Done(c, "Ok")
    ELSE LET a0 == InsertOrIgnoreAccount(c.account, t.client_id)
             a1 == [k \in DOMAIN a0 |->
                      IF /\ k = t.client_id
                         /\ a0[k].status = "active"
                         /\ a0[k].available_amount >= t.amount
                      THEN [a0[k] EXCEPT !.available_amount = @ - t.amount]
                      ELSE a0[k]]
         IN  [account |-> a1, tx |-> InsertOrIgnoreTx(c.tx, t), result |-> "Ok"]

handle_withdrawal_strictly_more(c, t) ==
    IF num_of_records(c, t.id) = 1
    THEN Done(c, "Ok")
    ELSE LET a1 == [k \in DOMAIN c.account |->
                      IF /\ k = t.client_id
                         /\ c.account[k].status = "active"
                         /\ c.account[k].available_amount > t.amount
                      THEN [c.account[k] EXCEPT !.available_amount = @ - t.amount]
                      ELSE c.account[k]]
         IN  [account |-> a1, tx |-> InsertOrIgnoreTx(c.tx, t), result |-> "Ok"]

handle_withdrawal(c, t) ==
    IF num_of_records(c, t.id) = 1
    THEN Done(c, "Ok")
    ELSE LET a1 == [k \in DOMAIN c.account |->
                      IF /\ k = t.client_id
                         /\ c.account[k].status = "active"
                         /\ c.account[k].available_amount >= t.amount
                      THEN [c.account[k] EXCEPT !.available_amount = @ - t.amount]
                      ELSE c.account[k]]
         IN  [account |-> a1, tx |-> InsertOrIgnoreTx(c.tx, t), result |-> "Ok"]

handle_dispute_no_hold(c, t) ==
    LET rows == SelectTx(c.tx, t.client_id, t.id, "processed")
    IN  IF rows = {} THEN Done(c, "Ok")
        ELSE LET id == CHOOSE i \in rows : TRUE
                 txrecord == c.tx[id]
             IN  IF DecodeSqlTx(txrecord) # "Ok" THEN Done(c, "Err")
                 ELSE [tx |-> UpdateTxStatus(c.tx, id, "in_dispute"),
                       account |-> [k \in DOMAIN c.account |->
                            IF k = txrecord.client_id
                            THEN [c.account[k] EXCEPT
                                    !.available_amount = @ - txrecord.amount]
                            ELSE c.account[k]],
                       result |-> "Ok"]

handle_dispute(c, t) ==
    LET rows == SelectTx(c.tx, t.client_id, t.id, "processed")
    IN  IF rows = {} THEN Done(c, "Ok")
        ELSE LET id == CHOOSE i \in rows : TRUE
                 txrecord == c.tx[id]
             IN  IF DecodeSqlTx(txrecord) # "Ok" THEN Done(c, "Err")
                 ELSE [tx |-> UpdateTxStatus(c.tx, id, "in_dispute"),
                       account |-> [k \in DOMAIN c.account |->
                            IF k = txrecord.client_id
                            THEN [c.account[k] EXCEPT
                                    !.available_amount = @ - txrecord.amount,
                                    !.held_amount = @ + txrecord.amount]
                            ELSE c.account[k]],
                       result |-> "Ok"]

handle_resolve_in_dispute(c, t) ==
    LET rows == SelectTx(c.tx, t.client_id, t.id, "in_dispute")
    IN  IF rows = {} THEN Done(c, "Ok")
        ELSE LET id == CHOOSE i \in rows : TRUE
                 txrecord == c.tx[id]
             IN  IF DecodeSqlTx(txrecord) # "Ok" THEN Done(c, "Err")
                 ELSE [tx |-> UpdateTxStatus(c.tx, id, "resolved"),
                       account |-> [k \in DOMAIN c.account |->
                            IF k = txrecord.client_id
                            THEN [c.account[k] EXCEPT
                                    !.available_amount = @ + txrecord.amount,
                                    !.held_amount = @ - txrecord.amount]
                            ELSE c.account[k]],
                       result |-> "Ok"]

handle_resolve(c, t) ==
    LET rows == SelectTx(c.tx, t.client_id, t.id, "processed")
    IN  IF rows = {} THEN Done(c, "Ok")
        ELSE LET id == CHOOSE i \in rows : TRUE
                 txrecord == c.tx[id]
             IN  IF DecodeSqlTx(txrecord) # "Ok" THEN Done(c, "Err")
                 ELSE [tx |-> UpdateTxStatus(c.tx, id, "resolved"),
                       account |-> [k \in DOMAIN c.account |->
                            IF k = txrecord.client_id
                            THEN [c.account[k] EXCEPT
                                    !.available_amount = @ + txrecord.amount,
                                    !.held_amount = @ - txrecord.amount]
                            ELSE c.account[k]],
                       result |-> "Ok"]

handle_chargeback(c, t) ==
    LET rows == SelectTx(c.tx, t.client_id, t.id, "in_dispute")
    IN  IF rows = {} THEN Done(c, "Ok")
        ELSE LET id == CHOOSE i \in rows : TRUE
                 txrecord == c.tx[id]
             IN  IF DecodeSqlTx(txrecord) # "Ok" THEN Done(c, "Err")
                 ELSE [tx |-> UpdateTxStatus(c.tx, id, "chargeback"),
                       account |-> [k \in DOMAIN c.account |->
                            IF k = txrecord.client_id
                            THEN [c.account[k] EXCEPT
                                    !.held_amount = @ - txrecord.amount,
                                    !.status = "blocked"]
                            ELSE c.account[k]],
                       result |-> "Ok"]

handle_tx(c, t) ==
    CASE t.tx_type = "deposit" -> handle_deposit(c, t)
      [] t.tx_type = "withdrawal" -> handle_withdrawal(c, t)
      [] t.tx_type = "dispute" -> handle_dispute(c, t)
      [] t.tx_type = "resolve" -> handle_resolve(c, t)
      [] t.tx_type = "chargeback" -> handle_chargeback(c, t)

\* from_sql_table: the Account the reporter builds from one row; locked is
\* read from the status column (no statement ever writes the locked column).
from_sql_table(c, k) ==
    [client_id |-> k,
     available |-> c.account[k].available_amount,
     held |-> c.account[k].held_amount,
     total |-> c.account[k].available_amount + c.account[k].held_amount,
     locked |-> (c.account[k].status = "blocked")]

\* The two tables of a handler's outcome.
Tables(r) == [account |-> r.account, tx |-> r.tx]

\* The engine fed any sequence of typed events: the tables are migrated, no
\* file is read and the loop of main draws each event freely.
Init ==
    /\ conn = migrate_tables
    /\ result = "Ok"
    /\ handled = 0
    /\ file = <<>>
    /\ queue = <<>>
    /\ pc = "loop"

\* One turn of the loop of main: pop an event, handle it; an Err ends the run.
Pop(t) ==
    /\ result = "Ok"
    /\ handled < MaxEvents
    /\ conn' = Tables(handle_tx(conn, t))
    /\ result' = handle_tx(conn, t).result
    /\ handled' = handled + 1
    /\ UNCHANGED <<file, queue, pc>>

Deposit == \E t \in Tx : t.tx_type = "deposit" /\ Pop(t)
Withdrawal == \E t \in Tx : t.tx_type = "withdrawal" /\ Pop(t)
Dispute == \E t \in Tx : t.tx_type = "dispute" /\ Pop(t)
Resolve == \E t \in Tx : t.tx_type = "resolve" /\ Pop(t)
Chargeback == \E t \in Tx : t.tx_type = "chargeback" /\ Pop(t)

Next == Deposit \/ Withdrawal \/ Dispute \/ Resolve \/ Chargeback

Spec == Init /\ [][Next]_vars

----
\* Failures of the store.

\* The tables inside a handler's SQL transaction: as conn.transaction() finds
\* them, then as each of the handler's writes leaves them, in the order of
\* the handler's statements; the last is what commit would make durable.
dbtx(c, t) ==
    LET r == handle_tx(c, t)
    IN  CASE t.tx_type = "deposit" ->
               IF num_of_records(c, t.id) = 1 THEN <<c>>
               ELSE << c,
                       [account |-> InsertOrIgnoreAccount(c.account, t.client_id), tx |-> c.tx],
                       [account |-> r.account, tx |-> c.tx],
                       Tables(r) >>
          [] t.tx_type = "withdrawal" ->
               << c, [account |-> r.account, tx |-> c.tx], Tables(r) >>
          [] t.tx_type \in {"dispute", "resolve", "chargeback"} ->
               << c, [account |-> c.account, tx |-> r.tx], Tables(r) >>

\* Transaction::rollback, and the drop of a Transaction that was not
\* committed: the tables are as conn.transaction() found them.
RollbackKeepsWrites(c, work) == work

Rollback(c, work) == c

\* A statement of the handler of t fails (the begin, a query, a write or the
\* commit): the transaction is rolled back or dropped and the handler
\* returns the error, which ends the loop of main.
StoreError(t) ==
    /\ result = "Ok"
    /\ handled < MaxEvents
    /\ \E j \in DOMAIN dbtx(conn, t) : conn' = Rollback(conn, dbtx(conn, t)[j])
    /\ result' = "Err"
    /\ handled' = handled + 1
    /\ UNCHANGED <<file, queue, pc>>

StoreFailure == \E t \in Tx : StoreError(t)

NextError == Next \/ StoreFailure

SpecError == Init /\ [][NextError]_vars

----
\* The run of main over an input file.

\* A row of the input file, as csv text: its type tag is any string.
Row(type, client, tx, amount) ==
    [type |-> type, client |-> client, tx |-> tx, amount |-> amount]

\* The feed of should_succeed_on_processing_tx_variant_2.
Fixture ==
    << Row("deposit", 1, 1, 1), Row("deposit", 2, 2, 2), Row("deposit", 1, 3, 2),
       Row("dispute", 1, 1, 0), Row("dispute", 2, 2, 0), Row("resolve", 2, 2, 0),
       Row("chargeback", 1, 1, 0) >>

\* The fixture with each row kept, dropped, or its type tag garbled.
RECURSIVE Edit(_, _)
Edit(rows, how) ==
    IF rows = <<>> THEN <<>>
    ELSE LET rest == Edit(Tail(rows), Tail(how))
         IN  CASE Head(how) = "keep" -> <<Head(rows)>> \o rest
               [] Head(how) = "drop" -> rest
               [] Head(how) = "garble" ->
                    <<[Head(rows) EXCEPT !.type = "bogus"]>> \o rest

Files == {Edit(Fixture, how) : how \in [1..Len(Fixture) -> {"keep", "drop", "garble"}]}

\* impl Deserialize for TxType: an unknown tag is an error.
DeserializeTxType(s) ==
    IF s \in {"deposit", "withdrawal", "dispute", "resolve", "chargeback"}
    THEN "Ok" ELSE "Err"

\* The rows of the file before the first one that fails to deserialize.
RECURSIVE WellFormedPrefix(_)
WellFormedPrefix(rows) ==
    IF rows = <<>> \/ DeserializeTxType(Head(rows).type) = "Err" THEN <<>>
    ELSE <<Head(rows)>> \o WellFormedPrefix(Tail(rows))

\* The Tx a well-formed row deserializes into.
RowTx(row) ==
    [id |-> row.tx, tx_type |-> row.type, client_id |-> row.client, amount |-> row.amount]

\* read_csv: every row deserialized, or the error of the first that fails.
read_csv_skip_malformed(rows) ==
    LET good == SelectSeq(rows, LAMBDA row : DeserializeTxType(row.type) = "Ok")
    IN  [result |-> "Ok", txs |-> [i \in 1..Len(good) |-> RowTx(good[i])]]

read_csv(rows) ==
    IF WellFormedPrefix(rows) = rows
    THEN [result |-> "Ok", txs |-> [i \in 1..Len(rows) |-> RowTx(rows[i])]]
    ELSE [result |-> "Err", txs |-> <<>>]

InitFile ==
    /\ conn = migrate_tables
    /\ result = "Ok"
    /\ handled = 0
    /\ file \in Files
    /\ queue = <<>>
    /\ pc = "read_csv"

\* main, lines 498-504: the file is read whole and its events queued; an
\* error of read_csv ends the run.
ReadCsv ==
    /\ pc = "read_csv"
    /\ result' = read_csv(file).result
    /\ queue' = read_csv(file).txs
    /\ pc' = IF read_csv(file).result = "Ok" THEN "loop" ELSE "exit"
    /\ UNCHANGED <<conn, handled, file>>

\* main, lines 506-508: the head of the queue is handled; an Err ends the run.
PopQueue ==
    /\ pc = "loop"
    /\ queue # <<>>
    /\ conn' = Tables(handle_tx(conn, Head(queue)))
    /\ result' = handle_tx(conn, Head(queue)).result
    /\ pc' = IF handle_tx(conn, Head(queue)).result = "Ok" THEN "loop" ELSE "exit"
    /\ queue' = Tail(queue)
    /\ handled' = handled + 1
    /\ UNCHANGED file

\* main, lines 510-512: the queue is empty, the accounts are reported.
Exit ==
    /\ pc = "loop"
    /\ queue = <<>>
    /\ pc' = "exit"
    /\ UNCHANGED <<conn, result, handled, file, queue>>

NextFile == ReadCsv \/ PopQueue \/ Exit

SpecFile == InitFile /\ [][NextFile]_vars

\* The accounts main prints.
Report == {from_sql_table(conn, k) : k \in DOMAIN conn.account}

TypeOK ==
    /\ DOMAIN conn.account \subseteq ClientId
    /\ DOMAIN conn.tx \subseteq TxId
    /\ \A k \in DOMAIN conn.account : conn.account[k].status \in AccountStatus
    /\ \A i \in DOMAIN conn.tx : conn.tx[i].status \in TxStatus /\ conn.tx[i].tx_type \in TxType
    /\ result \in {"Ok", "Err"}
    /\ handled \in 0..MaxEvents

----
\* Vocabulary of the properties.

DepositOrWithdrawal == {t \in Tx : t.tx_type \in {"deposit", "withdrawal"}}

\* The account of client k exists and is reported locked.
Locked(c, k) == k \in DOMAIN c.account /\ from_sql_table(c, k).locked

\* The account rows, and the tx rows, that differ between c and the outcome r.
ChangedAccounts(c, r) ==
    {k \in DOMAIN r.account : k \notin DOMAIN c.account \/ c.account[k] # r.account[k]}
ChangedTxs(c, r) ==
    {i \in DOMAIN r.tx : i \notin DOMAIN c.tx \/ c.tx[i] # r.tx[i]}

\* A withdrawal the transition table rejects: no account, locked, or
\* insufficient funds.
Rejected(c, t) ==
    \/ t.client_id \notin DOMAIN c.account
    \/ Locked(c, t.client_id)
    \/ c.account[t.client_id].available_amount < t.amount

----
\* C1: in every reachable state, a Deposit or Withdrawal whose id already
\* has a transaction record changes neither table, and applying a Deposit or
\* Withdrawal a second time leaves the state the first application produced.
C1_Idempotent ==
    \A t \in DepositOrWithdrawal :
        /\ t.id \in DOMAIN conn.tx => Tables(handle_tx(conn, t)) = conn
        /\ Tables(handle_tx(Tables(handle_tx(conn, t)), t)) = Tables(handle_tx(conn, t))

\* C1 witness: the event that created a record is replayed against an
\* account it would move funds of, were the id not already used.
C1_Witness ==
    \E t \in DepositOrWithdrawal :
        /\ t.id \in DOMAIN conn.tx
        /\ conn.tx[t.id].tx_type = t.tx_type
        /\ conn.tx[t.id].client_id = t.client_id
        /\ conn.tx[t.id].amount = t.amount
        /\ t.amount > 0
        /\ ~Rejected(conn, t)

\* C2: every event mutates exactly one account row and at most one tx row,
\* or mutates nothing (stated for the events that move a positive amount,
\* where a mutation shows in the row's values).
C2_AtomicPairing ==
    \A t \in Tx :
        LET r == handle_tx(conn, t)
        IN  (t.id \in DOMAIN r.tx /\ r.tx[t.id].amount > 0) =>
                \/ ChangedAccounts(conn, r) = {} /\ ChangedTxs(conn, r) = {}
                \/ /\ Cardinality(ChangedAccounts(conn, r)) = 1
                   /\ Cardinality(ChangedTxs(conn, r)) <= 1

\* C3: a Withdrawal with an unused id that is rejected (no account, locked
\* account or insufficient funds) leaves the tx table unchanged.
C3_RejectedWithdrawalNoRecord ==
    \A t \in Tx :
        (t.tx_type = "withdrawal" /\ t.id \notin DOMAIN conn.tx /\ Rejected(conn, t)) =>
            handle_tx(conn, t).tx = conn.tx

\* The event of the given type against record i, sent by client k.
Event(type, i, k) == [id |-> i, tx_type |-> type, client_id |-> k, amount |-> 0]

\* The tx rows with the given status.
WithStatus(c, status) == {i \in DOMAIN c.tx : c.tx[i].status = status}

\* C4: for every Processed record i owned by client k, Dispute(i,k) followed
\* by Resolve(i,k) leaves k's available and held at their pre-dispute values
\* and the record Resolved.
C4_ResolveUndoesDispute ==
    \A i \in WithStatus(conn, "processed") :
        LET k == conn.tx[i].client_id
            disputed == Tables(handle_tx(conn, Event("dispute", i, k)))
            resolved == Tables(handle_tx(disputed, Event("resolve", i, k)))
        IN  /\ resolved.tx[i].status = "resolved"
            /\ k \in DOMAIN conn.account =>
                  /\ resolved.account[k].available_amount = conn.account[k].available_amount
                  /\ resolved.account[k].held_amount = conn.account[k].held_amount

\* C5: every status change of a tx row is Processed -> InDispute by a
\* Dispute, InDispute -> Resolved by a Resolve or InDispute -> Chargeback by a
\* Chargeback, and a matching Resolve moves every InDispute row to Resolved.
C5_Lifecycle ==
    /\ \A t \in Tx : \A i \in DOMAIN conn.tx :
          LET from == conn.tx[i].status
              to == handle_tx(conn, t).tx[i].status
          IN  from # to =>
                \/ from = "processed" /\ to = "in_dispute" /\ t.tx_type = "dispute"
                \/ from = "in_dispute" /\ to = "resolved" /\ t.tx_type = "resolve"
                \/ from = "in_dispute" /\ to = "chargeback" /\ t.tx_type = "chargeback"
    /\ \A i \in WithStatus(conn, "in_dispute") :
          handle_tx(conn, Event("resolve", i, conn.tx[i].client_id)).tx[i].status = "resolved"

\* C6: a Dispute, Resolve or Chargeback naming a Resolved or Chargeback row,
\* with any client, changes neither table; nor does a Dispute naming a row
\* already InDispute.
C6_Terminal ==
    \A t \in Tx :
        (/\ t.id \in DOMAIN conn.tx
         /\ \/ /\ t.tx_type \in {"dispute", "resolve", "chargeback"}
               /\ conn.tx[t.id].status \in {"resolved", "chargeback"}
            \/ /\ t.tx_type = "dispute"
               /\ conn.tx[t.id].status = "in_dispute")
        => Tables(handle_tx(conn, t)) = conn

\* C6 witness: a row of positive amount charged back against an existing
\* account, so an event that got through would show in the account.
C6_Witness ==
    \E i \in WithStatus(conn, "chargeback") :
        /\ conn.tx[i].amount > 0
        /\ Locked(conn, conn.tx[i].client_id)

\* C7: a Chargeback(i,k) against an InDispute row owned by k locks k's
\* account, reduces its held by the row's amount, leaves its available
\* unchanged and sets the row's status to Chargeback; nothing else changes.
C7_ChargebackEffect ==
    \A t \in Tx :
        (/\ t.tx_type = "chargeback"
         /\ t.id \in WithStatus(conn, "in_dispute")
         /\ conn.tx[t.id].client_id = t.client_id)
        => LET r == handle_tx(conn, t)
               k == t.client_id
           IN  /\ k \in DOMAIN conn.account
               /\ Locked(r, k)
               /\ r.account[k].held_amount = conn.account[k].held_amount - conn.tx[t.id].amount
               /\ r.account[k].available_amount = conn.account[k].available_amount
               /\ r.tx[t.id] = [conn.tx[t.id] EXCEPT !.status = "chargeback"]
               /\ ChangedAccounts(conn, r) \subseteq {k}
               /\ ChangedTxs(conn, r) \subseteq {t.id}

\* C8: an account becomes locked only by a Chargeback of its client, and a
\* locked account stays locked whatever event follows.
C8_LockPermanent ==
    \A t \in Tx : \A k \in ClientId :
        LET r == handle_tx(conn, t)
        IN  /\ Locked(conn, k) => Locked(r, k)
            /\ (~Locked(conn, k) /\ Locked(r, k)) =>
                  (t.tx_type = "chargeback" /\ t.client_id = k)

\* C8 witness: a locked account, with an id still unused for a Deposit that
\* references the client again.
C8_Witness ==
    \E k \in ClientId : Locked(conn, k) /\ DOMAIN conn.tx # TxId

\* C9: a Dispute(i,k) with no tx row i, or whose row is owned by another
\* client, or whose row is not Processed, changes neither table and
\* returns Ok.
C9_DisputeNoMatch ==
    \A t \in Tx :
        (/\ t.tx_type = "dispute"
         /\ \/ t.id \notin DOMAIN conn.tx
            \/ conn.tx[t.id].client_id # t.client_id
            \/ conn.tx[t.id].status # "processed")
        => /\ Tables(handle_tx(conn, t)) = conn
           /\ handle_tx(conn, t).result = "Ok"

\* C9 witness: a Processed row another client may dispute and a row that is
\* no longer Processed, both of positive amount with an existing account, so
\* a Dispute that got through would show in the account.
C9_Witness ==
    /\ \E i \in WithStatus(conn, "processed") :
          conn.tx[i].amount > 0 /\ conn.tx[i].client_id \in DOMAIN conn.account
    /\ \E i \in DOMAIN conn.tx \ WithStatus(conn, "processed") :
          conn.tx[i].amount > 0 /\ conn.tx[i].client_id \in DOMAIN conn.account

\* What a Deposit with an unused id does to the tables, but for the credit:
\* the account exists afterwards, a new one with held = 0 and unlocked, held
\* is unchanged, the Processed row is created and nothing else changes.
DepositFrame(c, t, r) ==
    LET k == t.client_id
    IN  /\ k \in DOMAIN r.account
        /\ r.account[k].held_amount =
              (IF k \in DOMAIN c.account THEN c.account[k].held_amount ELSE 0)
        /\ Locked(r, k) = Locked(c, k)
        /\ r.tx[t.id] = [tx_type |-> "deposit", client_id |-> k,
                         amount |-> t.amount, status |-> "processed"]
        /\ ChangedAccounts(c, r) \subseteq {k}
        /\ ChangedTxs(c, r) = {t.id}

\* The available funds of client k, 0 when k has no account.
Available(c, k) == IF k \in DOMAIN c.account THEN c.account[k].available_amount ELSE 0

C11_Scenario ==
    (pc = "exit" /\ file = Fixture) =>
        Report = { [client_id |-> 1, available |-> 2, held |-> 0, total |-> 2, locked |-> TRUE],
                   [client_id |-> 2, available |-> 2, held |-> 0, total |-> 2, locked |-> FALSE] }

\* A tx row i owned by client k with the given status exists.
Matching(c, i, k, status) ==
    i \in DOMAIN c.tx /\ c.tx[i].client_id = k /\ c.tx[i].status = status

\* The event fails a business precondition of the transition table: a
\* duplicate id, a locked account, insufficient funds or no account, or no
\* referenced row of that id, client and status.
BusinessRejection(c, t) ==
    CASE t.tx_type = "deposit" -> t.id \in DOMAIN c.tx \/ Locked(c, t.client_id)
      [] t.tx_type = "withdrawal" -> t.id \in DOMAIN c.tx \/ Rejected(c, t)
      [] t.tx_type = "dispute" -> ~Matching(c, t.id, t.client_id, "processed")
      [] t.tx_type = "resolve" -> ~Matching(c, t.id, t.client_id, "in_dispute")
      [] t.tx_type = "chargeback" -> ~Matching(c, t.id, t.client_id, "in_dispute")

\* C12: no event so far has ended the loop, and every event that fails a
\* business precondition (a reference to a Chargeback row included) is
\* handled with result Ok, so the loop goes on to the next event.
C12_RejectionsAreOk ==
    /\ result = "Ok"
    /\ \A t \in Tx : BusinessRejection(conn, t) => handle_tx(conn, t).result = "Ok"

\* C12 witness: a row with status Chargeback and its locked account, open to
\* a duplicate id, a deposit or withdrawal on a locked account and a
\* reference to a Chargeback row.
C12_Witness ==
    \E i \in WithStatus(conn, "chargeback") : Locked(conn, conn.tx[i].client_id)

\* C13: a step in which the store fails leaves both tables as they were
\* before the event and returns the error, and no step follows an error: no
\* later event is applied.
C13_StoreFailureAtomic ==
    [][/\ result = "Ok"
       /\ result' = "Err" => conn' = conn]_vars

\* C13 witness: the run ended by an error after an event whose transaction
\* had writes to undo: a Processed row of positive amount, its owner's
\* account and an unused id are there.
C13_Witness ==
    /\ result = "Err"
    /\ DOMAIN conn.tx # TxId
    /\ \E i \in WithStatus(conn, "processed") :
          conn.tx[i].amount > 0 /\ conn.tx[i].client_id \in DOMAIN conn.account

\* C14: every account has held >= 0 in every reachable state.
C14_HeldNonNegative ==
    \A k \in DOMAIN conn.account : conn.account[k].held_amount >= 0

\* C15 as stated, in the case it names first: every account has
\* available >= 0 in every reachable state in which the only rows disputed
\* so far are Deposit rows.
C15_AvailableNonNegative ==
    (\A i \in DOMAIN conn.tx :
        conn.tx[i].status # "processed" => conn.tx[i].tx_type = "deposit")
    => \A k \in DOMAIN conn.account : conn.account[k].available_amount >= 0

\* C15 amended: a Withdrawal that changes an account leaves its available
\* at the old value less the amount and not below zero, and available goes
\* from non-negative to negative only by a Dispute.
C15_WithdrawalKeepsAvailableNonNegative ==
    \A t \in Tx :
        LET r == handle_tx(conn, t)
        IN  \A k \in DOMAIN conn.account :
                /\ (t.tx_type = "withdrawal" /\ r.account[k] # conn.account[k]) =>
                      /\ r.account[k].available_amount =
                            conn.account[k].available_amount - t.amount
                      /\ r.account[k].available_amount >= 0
                /\ (/\ conn.account[k].available_amount >= 0
                    /\ r.account[k].available_amount < 0) => t.tx_type = "dispute"

\* C15 witness: an unlocked account with nothing available and funds held,
\* and an unused id for a Withdrawal that the guard has to block.
C15_Witness ==
    /\ DOMAIN conn.tx # TxId
    /\ \E k \in DOMAIN conn.account :
          /\ ~Locked(conn, k)
          /\ conn.account[k].available_amount = 0
          /\ conn.account[k].held_amount > 0

\* C16: when the file has a malformed row, no event at or after that row is
\* applied (the events handled are fewer than the rows before it allow) and
\* the run ends with an error.
C16_FeedErrorFatal ==
    WellFormedPrefix(file) # file =>
        /\ handled <= Len(WellFormedPrefix(file))
        /\ pc = "exit" => result = "Err"

\* C16 witness: the run has ended on a file whose malformed row stands
\* between well-formed rows.
C16_Witness ==
    /\ pc = "exit"
    /\ WellFormedPrefix(file) # file
    /\ Len(WellFormedPrefix(file)) >= 1
    /\ Len(file) > Len(WellFormedPrefix(file)) + 1

\* C17: an account comes to exist only by a Deposit for its client with an
\* unused id, as a row with held = 0, unlocked and the deposit as its
\* available funds; no event deletes an account.
C17_AccountsOnlyByDeposit ==
    \A t \in Tx :
        LET r == handle_tx(conn, t)
        IN  /\ DOMAIN conn.account \subseteq DOMAIN r.account
            /\ \A k \in DOMAIN r.account \ DOMAIN conn.account :
                  /\ t.tx_type = "deposit"
                  /\ t.client_id = k
                  /\ t.id \notin DOMAIN conn.tx
                  /\ r.account[k] = [available_amount |-> t.amount, held_amount |-> 0,
                                     locked |-> FALSE, status |-> "active"]

\* C17 witness: a client without an account owns a tx row, left by a
\* Withdrawal and open to a Dispute, Resolve or Chargeback, next to a client
\* with an account.
C17_Witness ==
    /\ DOMAIN conn.account # {}
    /\ \E i \in DOMAIN conn.tx : conn.tx[i].client_id \notin DOMAIN conn.account

\* C18: a Withdrawal with an unused id against an existing, unlocked
\* account with available >= amt reduces available by amt, leaves held
\* unchanged and creates the Processed row; a rejected one leaves available
\* and held of every account unchanged.
C18_WithdrawalEffect ==
    \A t \in Tx :
        (t.tx_type = "withdrawal" /\ t.id \notin DOMAIN conn.tx) =>
            LET r == handle_tx(conn, t)
                k == t.client_id
            IN  IF Rejected(conn, t)
                THEN r.account = conn.account
                ELSE /\ r.account[k].available_amount =
                           conn.account[k].available_amount - t.amount
                     /\ r.account[k].held_amount = conn.account[k].held_amount
                     /\ r.tx[t.id] = [tx_type |-> "withdrawal", client_id |-> k,
                                      amount |-> t.amount, status |-> "processed"]
                     /\ ChangedAccounts(conn, r) \subseteq {k}
                     /\ ChangedTxs(conn, r) = {t.id}

\* C18 witness: an unlocked account whose whole balance one Withdrawal can
\* take, with an id unused.
C18_Witness ==
    /\ DOMAIN conn.tx # TxId
    /\ \E k \in DOMAIN conn.account :
          ~Locked(conn, k) /\ conn.account[k].available_amount \in 1..MaxAmount

\* C19: a Resolve naming an InDispute row changes nothing, and a Resolve
\* that changes anything names a Processed row of its client; so after
\* Dispute(i,k) of a Processed row and any number of Resolve(i,k), the
\* account has available less by the amount, held more by it, and the row
\* is InDispute.
C19_ResolveIgnoresInDispute ==
    /\ \A t \in Tx :
          t.tx_type = "resolve" =>
              /\ t.id \in WithStatus(conn, "in_dispute") => Tables(handle_tx(conn, t)) = conn
              /\ Tables(handle_tx(conn, t)) # conn =>
                    Matching(conn, t.id, t.client_id, "processed")
    /\ \A i \in WithStatus(conn, "processed") :
          LET k == conn.tx[i].client_id
              disputed == Tables(handle_tx(conn, Event("dispute", i, k)))
              once == Tables(handle_tx(disputed, Event("resolve", i, k)))
              twice == Tables(handle_tx(once, Event("resolve", i, k)))
          IN  /\ once = disputed
              /\ twice = disputed
              /\ disputed.tx[i].status = "in_dispute"
              /\ k \in DOMAIN conn.account =>
                    /\ disputed.account[k].available_amount =
                          conn.account[k].available_amount - conn.tx[i].amount
                    /\ disputed.account[k].held_amount =
                          conn.account[k].held_amount + conn.tx[i].amount

\* C19 witness: an InDispute row of positive amount whose owner's account
\* holds the amount, as the Dispute of a Deposit leaves it.
C19_Witness ==
    \E i \in WithStatus(conn, "in_dispute") :
        /\ conn.tx[i].amount > 0
        /\ conn.tx[i].tx_type = "deposit"
        /\ conn.tx[i].client_id \in DOMAIN conn.account
        /\ conn.account[conn.tx[i].client_id].held_amount = conn.tx[i].amount

\* available + held of client k, 0 when k has no account.
Total(c, k) == IF k \in DOMAIN c.account THEN from_sql_table(c, k).total ELSE 0

\* C20: the reported total is available + held; no Dispute or Resolve
\* changes the total of any account; and a total changes only by a Deposit
\* (by +amt), a Withdrawal (by -amt) or a Chargeback (by -amt of the row it
\* names), on the account of the event's client.
C20_TotalConserved ==
    \A t \in Tx :
        LET r == handle_tx(conn, t)
        IN  \A k \in DOMAIN r.account :
              LET change == Total(r, k) - Total(conn, k)
              IN  /\ from_sql_table(r, k).total =
                        r.account[k].available_amount + r.account[k].held_amount
                  /\ t.tx_type \in {"dispute", "resolve"} => change = 0
                  /\ change # 0 =>
                        /\ k = t.client_id
                        /\ \/ t.tx_type = "deposit" /\ change = t.amount
                           \/ t.tx_type = "withdrawal" /\ change = 0 - t.amount
                           \/ /\ t.tx_type = "chargeback"
                              /\ Matching(conn, t.id, k, "in_dispute")
                              /\ change = 0 - conn.tx[t.id].amount

\* C20 witness: a Processed row and an InDispute row of positive amount,
\* each with its owner's account, open to a Dispute, a Resolve and a
\* Chargeback that move funds.
C20_Witness ==
    /\ \E i \in WithStatus(conn, "processed") :
          conn.tx[i].amount > 0 /\ conn.tx[i].client_id \in DOMAIN conn.account
    /\ \E i \in WithStatus(conn, "in_dispute") :
          conn.tx[i].amount > 0 /\ conn.tx[i].client_id \in DOMAIN conn.account

\* C21: the first occurrence of an id wins. No event removes a tx row or
\* changes the type, owning client or amount of a row that exists (only
\* its status), the event creates at most the row of its own id, and a
\* Deposit or Withdrawal whose id already has a row changes neither that
\* row nor any account, whatever client, type or amount it carries.
C21_FirstOccurrenceWins ==
    \A t \in Tx :
        LET r == handle_tx(conn, t)
        IN  /\ \A i \in DOMAIN conn.tx :
                  /\ i \in DOMAIN r.tx
                  /\ r.tx[i].tx_type = conn.tx[i].tx_type
                  /\ r.tx[i].client_id = conn.tx[i].client_id
                  /\ r.tx[i].amount = conn.tx[i].amount
            /\ DOMAIN r.tx \subseteq DOMAIN conn.tx \cup {t.id}
            /\ (t.tx_type \in {"deposit", "withdrawal"} /\ t.id \in DOMAIN conn.tx) =>
                  /\ r.tx = conn.tx
                  /\ r.account = conn.account

\* C21 witness: a row of positive amount whose status has been changed by a
\* Dispute, and a Deposit reusing its id for another client, whose active
\* account the Deposit would credit were the id fresh.
C21_Witness ==
    \E i \in WithStatus(conn, "in_dispute"), k \in DOMAIN conn.account :
        /\ conn.tx[i].amount > 0
        /\ conn.tx[i].client_id # k
        /\ conn.account[k].status = "active"
====
